---------------------------- MODULE Spec2Model ----------------------------
(***************************************************************************)
(* Model of reverse.py: the descriptor graph walker                        *)
(* (__reverse_grpc_descriptor) and the schema renderer (__generate_file    *)
(* and the generators it calls).  Text is modelled as strings, built the   *)
(* way the f-strings of the source build it.                               *)
(***************************************************************************)
EXTENDS Integers, Sequences, FiniteSets, TLC

\* ------------------------------------------------------------------------
\* Program constants (reverse.py lines 8-25)
\* ------------------------------------------------------------------------
TYPE_DOUBLE == 1
TYPE_FLOAT == 2
TYPE_INT64 == 3
TYPE_UINT64 == 4
TYPE_INT32 == 5
TYPE_FIXED64 == 6
TYPE_FIXED32 == 7
TYPE_BOOL == 8
TYPE_STRING == 9
TYPE_GROUP == 10
TYPE_MESSAGE == 11
TYPE_BYTES == 12
TYPE_UINT32 == 13
TYPE_ENUM == 14
TYPE_SFIXED32 == 15
TYPE_SFIXED64 == 16
TYPE_SINT32 == 17
TYPE_SINT64 == 18

\* field.LABEL_REPEATED of FieldDescriptorProto, compared at line 60
LABEL_REPEATED == 3

\* The dict literal of lines 27-43, as a function on its keys.
TYPE_LABELS ==
    [t \in {TYPE_DOUBLE, TYPE_FLOAT, TYPE_INT64, TYPE_UINT64, TYPE_INT32,
            TYPE_FIXED64, TYPE_FIXED32, TYPE_BOOL, TYPE_STRING, TYPE_BYTES,
            TYPE_UINT32, TYPE_SFIXED32, TYPE_SFIXED64, TYPE_SINT32,
            TYPE_SINT64} |->
        CASE t = TYPE_DOUBLE   -> "double"
          [] t = TYPE_FLOAT    -> "float"
          [] t = TYPE_INT64    -> "int64"
          [] t = TYPE_UINT64   -> "uint64"
          [] t = TYPE_INT32    -> "int32"
          [] t = TYPE_FIXED64  -> "fixed64"
          [] t = TYPE_FIXED32  -> "fixed32"
          [] t = TYPE_BOOL     -> "bool"
          [] t = TYPE_STRING   -> "string"
          [] t = TYPE_BYTES    -> "byes"
          [] t = TYPE_UINT32   -> "uint32"
          [] t = TYPE_SFIXED32 -> "sfixed32"
          [] t = TYPE_SFIXED64 -> "sfixed64"
          [] t = TYPE_SINT32   -> "sint32"
          [] t = TYPE_SINT64   -> "sint64"]

\* ------------------------------------------------------------------------
\* Python string and pathlib primitives used by the source
\* ------------------------------------------------------------------------
CharAt(s, i) == SubSeq(s, i, i)

\* the element of a singleton; {e(x) : x \in {v}} names the value of v in e
The(S) == CHOOSE r \in S : TRUE

\* the k-th smallest element of a set of numbers
Nth(at, k) == CHOOSE i \in at : Cardinality({j \in at : j < i}) = k - 1

\* str.split(sep=...) for a one-character separator: the pieces between
\* consecutive occurrences of sep, empty pieces kept
Split(s, sep) ==
    The({[k \in 1..(Cardinality(at) + 1) |->
             SubSeq(s, IF k = 1 THEN 1 ELSE Nth(at, k - 1) + 1,
                       IF k > Cardinality(at) THEN Len(s) ELSE Nth(at, k) - 1)] :
         at \in {{i \in 1..Len(s) : CharAt(s, i) = sep}}})

\* seq[-1]
Last(seq) == seq[Len(seq)]

\* str.startswith
StartsWith(s, p) == Len(s) >= Len(p) /\ SubSeq(s, 1, Len(p)) = p

IsPart(x) == x \notin {"", "."}

\* pathlib.Path(s) for a relative s: its parts (empty and "." components are
\* dropped, ".." is kept)
Path(s) == SelectSeq(Split(s, "/"), IsPart)

\* Path.parent: the parent of the empty path "." is itself
Parent(p) == IF p = <<>> THEN <<>> ELSE SubSeq(p, 1, Len(p) - 1)

\* Path.is_relative_to
IsRelativeTo(p, other) ==
    Len(other) <= Len(p) /\ SubSeq(p, 1, Len(other)) = other

\* Path.relative_to, where IsRelativeTo(p, other)
RelativeTo(p, other) == SubSeq(p, Len(other) + 1, Len(p))

RECURSIVE JoinParts(_)
JoinParts(parts) ==
    IF Len(parts) = 1 THEN parts[1]
    ELSE parts[1] \o "/" \o JoinParts(Tail(parts))

\* str(Path)
PathStr(p) == IF p = <<>> THEN "." ELSE JoinParts(p)

\* ------------------------------------------------------------------------
\* What a generator has done when it returns or raises: the text it wrote
\* to the stream, and the exception it raised ("none": it returned).
\* ------------------------------------------------------------------------
Wrote(s) == [out |-> s, err |-> "none"]

Raised(s, e) == [out |-> s, err |-> e]

\* a ; b  -- b runs only if a returned
Then(a, b) ==
    The({IF x.err # "none" THEN x
         ELSE [out |-> x.out \o y.out, err |-> y.err] :
         x \in {a}, y \in {b}})

RECURSIVE InOrderFrom(_, _)
InOrderFrom(rs, i) ==
    IF i > Len(rs) THEN Wrote("") ELSE Then(rs[i], InOrderFrom(rs, i + 1))

\* a for loop: the turns rs[1], rs[2], ... one after the other
InOrder(rs) == InOrderFrom(rs, 1)

\* ------------------------------------------------------------------------
\* Field rendering
\* ------------------------------------------------------------------------
extract_field_type_str(field) ==
    IF field.type = TYPE_ENUM \/ field.type = TYPE_MESSAGE
    THEN [val |-> Last(Split(field.type_name, ".")), err |-> "none"]
    ELSE IF field.type = TYPE_GROUP
         THEN [val |-> "", err |-> "NameError"]
         ELSE [val |-> TYPE_LABELS[field.type], err |-> "none"]

\* Lines 67-74: the loop iterates the options message itself, which is not
\* iterable, after "[" has been written.
field_options(field) ==
    IF field.packed
    THEN Raised("[", "TypeError")
    ELSE Wrote("")

\* variant: the label alone decides the keyword
field_repeat_by_label(field, is_map) ==
    IF field.label = LABEL_REPEATED THEN "repeated " ELSE ""

field_repeat(field, is_map) ==
    IF field.label = LABEL_REPEATED /\ is_map = FALSE THEN "repeated " ELSE ""

generate_field(field, map_entries, level) ==
    The({LET is_map == t.val \in DOMAIN map_entries
             type_str == IF is_map THEN map_entries[t.val] ELSE t.val
             repeat == field_repeat(field, is_map)
         IN  IF t.err # "none" THEN Raised("", t.err)
             ELSE Then(Wrote(level \o repeat \o type_str \o " " \o field.name
                             \o " = " \o ToString(field.number)),
                  Then(field_options(field), Wrote(";\n"))) :
         t \in {extract_field_type_str(field)}})

\* ------------------------------------------------------------------------
\* Enum rendering
\* ------------------------------------------------------------------------
RECURSIVE enum_values(_, _)
enum_values(vs, level) ==
    IF vs = <<>> THEN ""
    ELSE level \o "  " \o Head(vs).name \o " = " \o ToString(Head(vs).number)
         \o ";\n" \o enum_values(Tail(vs), level)

generate_enum(enum, level) ==
    Wrote(level \o "enum " \o enum.name \o " {\n"
          \o (IF enum.allow_alias
              THEN level \o " option allow_alias = true;\n" ELSE "")
          \o enum_values(enum.value, level)
          \o level \o "}\n")

\* ------------------------------------------------------------------------
\* Message rendering
\* ------------------------------------------------------------------------
extract_map_shortcut(m) ==
    IF Len(m.field) < 1 THEN [val |-> "", err |-> "IndexError"]
    ELSE LET k == extract_field_type_str(m.field[1])
         IN  IF k.err # "none" THEN k
             ELSE IF Len(m.field) < 2 THEN [val |-> "", err |-> "IndexError"]
             ELSE LET v == extract_field_type_str(m.field[2])
                  IN  IF v.err # "none" THEN v
                      ELSE [val |-> "map<" \o k.val \o "," \o v.val \o ">",
                            err |-> "none"]

\* The dict map_entries after the loop of lines 118-122: a later entry of
\* the same name overwrites an earlier one.
map_entries_of(msg) ==
    LET idx == {i \in 1..Len(msg.nested_type) : msg.nested_type[i].map_entry}
        names == {msg.nested_type[i].name : i \in idx}
        last(n) == CHOOSE i \in idx :
                      /\ msg.nested_type[i].name = n
                      /\ \A j \in idx : msg.nested_type[j].name = n => j <= i
    IN  [n \in names |-> extract_map_shortcut(msg.nested_type[last(n)]).val]

RECURSIVE generate_message(_, _)
generate_message(msg, level) ==
    LET nested == [i \in 1..Len(msg.nested_type) |->
                     LET m == msg.nested_type[i]
                     IN  IF m.map_entry
                         THEN Raised("", extract_map_shortcut(m).err)
                         ELSE generate_message(m, level \o "  ")]
        enums == [i \in 1..Len(msg.enum_type) |->
                     generate_enum(msg.enum_type[i], level \o "  ")]
        fields(map_entries) ==
                 [i \in 1..Len(msg.field) |->
                     generate_field(msg.field[i], map_entries, level \o "  ")]
    IN  Then(Wrote(level \o "message " \o msg.name \o "\n" \o level \o "{\n"),
        Then(InOrder(nested),
        Then(InOrder(enums),
        Then(The({InOrder(fields(map_entries)) :
                     map_entries \in {map_entries_of(msg)}}),
             Wrote(level \o "}\n")))))

\* ------------------------------------------------------------------------
\* Imports
\* ------------------------------------------------------------------------
RECURSIVE import_walk_up(_, _, _)
\* the while loop of lines 141-143; returns <<up, current>>
import_walk_up(target_file, current, up) ==
    IF IsRelativeTo(target_file, current) THEN <<up, current>>
    ELSE import_walk_up(target_file, Parent(current), up \o "../")

\* variant: the path below the common ancestor, without the way up to it
generate_import_without_up(dep, current_dir) ==
    IF StartsWith(dep, "google") THEN Wrote("")
    ELSE The({The({LET rel == RelativeTo(target_file, w[2])
                   IN  Wrote("import \"" \o PathStr(rel) \o "\";\n") :
                   w \in {import_walk_up(target_file, current, "")}}) :
              target_file \in {Path("protobuf/" \o dep)},
              current \in {current_dir}})

generate_import(dep, current_dir) ==
    IF StartsWith(dep, "google") THEN Wrote("")
    ELSE The({The({LET rel == RelativeTo(target_file, w[2])
                   IN  Wrote("import \"" \o w[1] \o PathStr(rel) \o "\";\n") :
                   w \in {import_walk_up(target_file, current, "")}}) :
              target_file \in {Path("protobuf/" \o dep)},
              current \in {current_dir}})

\* ------------------------------------------------------------------------
\* Services
\* ------------------------------------------------------------------------
generate_rpc_method(level, m) ==
    LET in_mode == IF m.client_streaming THEN "stream " ELSE ""
        in_type == Last(Split(m.input_type, "."))
        ret_mode == IF m.server_streaming THEN "stream " ELSE ""
        ret_type == Last(Split(m.output_type, "."))
    IN  Wrote(level \o "rpc " \o m.name \o " (" \o in_mode \o in_type
              \o ") returns (" \o ret_mode \o ret_type \o ");\n")

generate_service(s) ==
    Then(Wrote("service " \o s.name \o " {\n"),
    Then(InOrder([i \in 1..Len(s.method) |->
                     generate_rpc_method("  ", s.method[i])]),
         Wrote("}\n")))

\* ------------------------------------------------------------------------
\* The body of the with block of __generate_file (lines 183-199)
\* ------------------------------------------------------------------------
target_path(file) == Path("protobuf/" \o file.name)

file_body(descriptor) ==
    The({Then(Wrote("syntax = \"" \o file.syntax \o "\";\n"),
         Then(Wrote(IF Len(file.package) > 0
                    THEN "package " \o file.package \o ";\n" ELSE ""),
         Then(InOrder([i \in 1..Len(file.dependency) |->
                          generate_import(file.dependency[i], parent)]),
         Then(InOrder([i \in 1..Len(file.service) |->
                          generate_service(file.service[i])]),
         Then(InOrder([i \in 1..Len(file.enum_type) |->
                          generate_enum(file.enum_type[i], "")]),
              InOrder([i \in 1..Len(file.message_type) |->
                          generate_message(file.message_type[i], "")])))))) :
         file \in {descriptor}, parent \in {Parent(target_path(descriptor))}})

\* ------------------------------------------------------------------------
\* The inputs of a run
\* ------------------------------------------------------------------------
\* Bounds of the model
MaxEdges == 4
MaxDepth == 6

\* The file descriptors of the pool, by name
Files == {"a.proto", "x/b.proto", "x/y/c.proto", "google/d.proto"}

\* The descriptor handed to reverse_descriptor
Root == "a.proto"

Range(seq) == {seq[i] : i \in 1..Len(seq)}

RECURSIVE ReachFrom(_, _)
\* the files reachable from the set S along the dependencies of g
ReachFrom(g, S) ==
    LET T == S \cup UNION {Range(g[f]) : f \in S}
    IN  IF T = S THEN S ELSE ReachFrom(g, T)

\* the direct and transitive dependencies of f
TransDeps(g, f) == ReachFrom(g, Range(g[f]))

Acyclic(g, f) == \A h \in ReachFrom(g, {f}) : h \notin TransDeps(g, h)

RECURSIVE Graphs(_)
\* every dependency graph of at most k imports, each declared by a file
\* reachable from Root, in every declaration order
Graphs(k) ==
    IF k = 0 THEN {[f \in Files |-> <<>>]}
    ELSE LET P == Graphs(k - 1)
         IN  P \cup UNION {UNION {{[g EXCEPT ![u] = Append(g[u], v)] :
                                      v \in Files \ Range(g[u])} :
                                  u \in ReachFrom(g, {Root})} : g \in P}

Field(n, num, t, tn, l, p) ==
    [name |-> n, number |-> num, type |-> t, type_name |-> tn, label |-> l,
     packed |-> p]

Message(n, e, fs, ns, es) ==
    [name |-> n, map_entry |-> e, field |-> fs, nested_type |-> ns,
     enum_type |-> es]

CountsEntry ==
    Message("CountsEntry", TRUE,
            <<Field("key", 1, TYPE_STRING, "", 1, FALSE),
              Field("value", 2, TYPE_INT32, "", 1, FALSE)>>, <<>>, <<>>)

\* The serialized_pb a descriptor may hold: bytes that do not parse, or the
\* messages of a file.
Payloads == {"good", "group", "packed", "malformed"}

message_type_of(p) ==
    CASE p = "good" ->
           <<Message("Stats", FALSE,
                     <<Field("counts", 1, TYPE_MESSAGE, ".pkg.Stats.CountsEntry",
                             LABEL_REPEATED, FALSE)>>,
                     <<CountsEntry>>, <<>>)>>
      [] p = "group" ->
           <<Message("Legacy", FALSE,
                     <<Field("id", 1, TYPE_INT32, "", 1, FALSE),
                       Field("g", 2, TYPE_GROUP, ".pkg.Legacy.G", 1, FALSE)>>,
                     <<>>, <<>>)>>
      [] p = "packed" ->
           <<Message("Samples", FALSE,
                     <<Field("v", 1, TYPE_INT32, "", LABEL_REPEATED, TRUE)>>,
                     <<>>, <<>>)>>
      [] OTHER -> <<>>

Color ==
    [name |-> "Color", allow_alias |-> TRUE,
     value |-> <<[name |-> "RED", number |-> 0],
                 [name |-> "ROUGE", number |-> 0]>>]

Method(n, i, o, cs, ss) ==
    [name |-> n, input_type |-> i, output_type |-> o, client_streaming |-> cs,
     server_streaming |-> ss]

service_of(p) ==
    IF p = "good"
    THEN <<[name |-> "Stat",
            method |-> <<Method("Get", ".pkg.Query", ".pkg.Stats", FALSE, FALSE),
                         Method("Watch", ".pkg.Query", ".pkg.Stats", TRUE, TRUE)>>]>>
    ELSE <<>>

enum_type_of(p) == IF p = "good" THEN <<Color>> ELSE <<>>

\* ------------------------------------------------------------------------
\* State
\* ------------------------------------------------------------------------
VARIABLES
    deps,       \* descriptor.dependencies of every file, in declared order
    stack,      \* the activations of __reverse_grpc_descriptor, innermost last
    processed,  \* the set passed down the recursion
    disk,       \* the file at protobuf/<name>: whether it exists, and its text
    open,       \* the names whose output stream is open
    payload,    \* the serialized_pb read for each file, "unread" before
    status,     \* "running", "raising", "done", "error": the run of reverse_descriptor
    exc,        \* the exception in flight or delivered, "none" without
    failed,     \* the names whose __generate_file raised
    rendered,   \* how many times __generate_file was called for each name
    op,         \* the generator last applied on its own, "idle" before
    arg,        \* its arguments
    res         \* its result

walk_vars == <<deps, stack, processed, disk, open, payload, status, exc,
               failed, rendered>>
render_vars == <<op, arg, res>>
vars == <<deps, stack, processed, disk, open, payload, status, exc, failed,
          rendered, op, arg, res>>

NoFile == [exists |-> FALSE, text |-> ""]

Frame(d) == [desc |-> d, pc |-> "check", i |-> 1, called |-> <<>>]

Top == stack[Len(stack)]
SetTop(fr) == [stack EXCEPT ![Len(stack)] = fr]
Pop == SubSeq(stack, 1, Len(stack) - 1)

\* file.ParseFromString(descriptor.serialized_pb), for bytes that parse
FileProto(f, p) ==
    [name |-> f, package |-> "pkg", syntax |-> "proto3",
     dependency |-> deps[f], service |-> service_of(p),
     enum_type |-> enum_type_of(p), message_type |-> message_type_of(p)]

RenderIdle == op = "idle" /\ arg = <<>> /\ res = Wrote("")

\* reverse_descriptor(root) has called __reverse_grpc_descriptor(root, set([]))
Init ==
    /\ deps \in Graphs(MaxEdges)
    /\ stack = <<Frame(Root)>>
    /\ processed = {}
    /\ disk = [f \in Files |-> NoFile]
    /\ open = {}
    /\ payload = [f \in Files |-> "unread"]
    /\ status = "running"
    /\ exc = "none"
    /\ failed = {}
    /\ rendered = [f \in Files |-> 0]
    /\ RenderIdle

Running == status = "running" /\ stack # <<>>

\* ------------------------------------------------------------------------
\* __reverse_grpc_descriptor
\* ------------------------------------------------------------------------
\* lines 204-205
Skip ==
    /\ Running /\ Top.pc = "check"
    /\ Top.desc \in processed
    /\ stack' = Pop
    /\ UNCHANGED <<deps, processed, disk, open, payload, status, exc, failed,
                   rendered, render_vars>>

\* variant: no test of the visited set
EnterUnchecked ==
    /\ Running /\ Top.pc = "check"
    /\ stack' = SetTop([Top EXCEPT !.pc = "loop"])
    /\ UNCHANGED <<deps, processed, disk, open, payload, status, exc, failed,
                   rendered, render_vars>>

\* variant: the name is recorded on entry, before the dependencies
EnterMarking ==
    /\ Running /\ Top.pc = "check"
    /\ Top.desc \notin processed
    /\ processed' = processed \cup {Top.desc}
    /\ stack' = SetTop([Top EXCEPT !.pc = "loop"])
    /\ UNCHANGED <<deps, disk, open, payload, status, exc, failed, rendered,
                   render_vars>>

\* line 204, the name is not in processed
Enter ==
    /\ Running /\ Top.pc = "check"
    /\ Top.desc \notin processed
    /\ stack' = SetTop([Top EXCEPT !.pc = "loop"])
    /\ UNCHANGED <<deps, processed, disk, open, payload, status, exc, failed,
                   rendered, render_vars>>

\* variant: the dependencies taken last first
next_dependency_reversed(f, i) == deps[f][Len(deps[f]) - i + 1]

\* the dependency the loop of line 207 takes at its i-th turn
next_dependency(f, i) == deps[f][i]

\* lines 207-208: the recursive call for the next dependency
Call ==
    /\ Running /\ Top.pc = "loop"
    /\ Top.i <= Len(deps[Top.desc])
    /\ Len(stack) < MaxDepth
    /\ LET d == next_dependency(Top.desc, Top.i)
       IN  stack' = Append(SetTop([Top EXCEPT !.i = @ + 1,
                                              !.called = Append(@, d)]),
                           Frame(d))
    /\ UNCHANGED <<deps, processed, disk, open, payload, status, exc, failed,
                   rendered, render_vars>>

\* line 208 when the interpreter's stack is exhausted
Overflow ==
    /\ Running /\ Top.pc = "loop"
    /\ Top.i <= Len(deps[Top.desc])
    /\ Len(stack) >= MaxDepth
    /\ status' = "raising"
    /\ exc' = "RecursionError"
    /\ UNCHANGED <<deps, stack, processed, disk, open, payload, failed,
                   rendered, render_vars>>

\* variant: the name is recorded before the file is generated
LoopDoneMarking ==
    /\ Running /\ Top.pc = "loop"
    /\ Top.i > Len(deps[Top.desc])
    /\ processed' = processed \cup {Top.desc}
    /\ stack' = SetTop([Top EXCEPT !.pc = "parse"])
    /\ UNCHANGED <<deps, disk, open, payload, status, exc, failed, rendered,
                   render_vars>>

\* the loop of line 207 is exhausted
LoopDone ==
    /\ Running /\ Top.pc = "loop"
    /\ Top.i > Len(deps[Top.desc])
    /\ stack' = SetTop([Top EXCEPT !.pc = "parse"])
    /\ UNCHANGED <<deps, processed, disk, open, payload, status, exc, failed,
                   rendered, render_vars>>

\* line 210 into lines 170-180: ParseFromString, then the parent directory
GenParse ==
    /\ Running /\ Top.pc = "parse"
    /\ \E p \in Payloads :
        /\ payload' = [payload EXCEPT ![Top.desc] = p]
        /\ rendered' = [rendered EXCEPT ![Top.desc] = @ + 1]
        /\ IF p = "malformed"
           THEN /\ status' = "raising"
                /\ exc' = "DecodeError"
                /\ failed' = failed \cup {Top.desc}
                /\ stack' = stack
           ELSE /\ stack' = SetTop([Top EXCEPT !.pc = "open"])
                /\ UNCHANGED <<status, exc, failed>>
    /\ UNCHANGED <<deps, processed, disk, open, render_vars>>

\* line 182: open(target_path, 'w') creates or truncates the file
GenOpen ==
    /\ Running /\ Top.pc = "open"
    /\ disk' = [disk EXCEPT ![Top.desc] = [exists |-> TRUE, text |-> ""]]
    /\ open' = open \cup {Top.desc}
    /\ stack' = SetTop([Top EXCEPT !.pc = "write"])
    /\ UNCHANGED <<deps, processed, payload, status, exc, failed, rendered,
                   render_vars>>

\* what the with block leaves in the file when it is left by an exception
text_left_on_error(written) == written

\* lines 183-199; an exception leaves the with block, which closes the file
GenWrite ==
    /\ Running /\ Top.pc = "write"
    /\ \E r \in {file_body(FileProto(Top.desc, payload[Top.desc]))} :
          IF r.err = "none"
          THEN /\ disk' = [disk EXCEPT ![Top.desc].text = r.out]
               /\ stack' = SetTop([Top EXCEPT !.pc = "close"])
               /\ UNCHANGED <<open, status, exc, failed>>
          ELSE /\ disk' = [disk EXCEPT ![Top.desc].text =
                                            text_left_on_error(r.out)]
               /\ open' = open \ {Top.desc}
               /\ status' = "raising"
               /\ exc' = r.err
               /\ failed' = failed \cup {Top.desc}
               /\ stack' = stack
    /\ UNCHANGED <<deps, processed, payload, rendered, render_vars>>

\* the end of the with block
GenClose ==
    /\ Running /\ Top.pc = "close"
    /\ open' = open \ {Top.desc}
    /\ stack' = SetTop([Top EXCEPT !.pc = "add"])
    /\ UNCHANGED <<deps, processed, disk, payload, status, exc, failed,
                   rendered, render_vars>>

\* the set line 211 leaves
processed_after_add(f) == processed \cup {f}

\* line 211, and the return
AddProcessed ==
    /\ Running /\ Top.pc = "add"
    /\ processed' = processed_after_add(Top.desc)
    /\ stack' = Pop
    /\ UNCHANGED <<deps, disk, open, payload, status, exc, failed, rendered,
                   render_vars>>

\* variant: the innermost activation swallows the exception and returns
PropagateSwallowed ==
    /\ status = "raising"
    /\ IF stack # <<>>
       THEN stack' = Pop /\ status' = "running"
       ELSE stack' = stack /\ status' = "error"
    /\ UNCHANGED <<deps, processed, disk, open, payload, exc, failed,
                   rendered, render_vars>>

\* No activation has a handler: the exception leaves the innermost one, and
\* reaches the caller of reverse_descriptor when none is left.
Propagate ==
    /\ status = "raising"
    /\ IF stack # <<>>
       THEN stack' = Pop /\ status' = status
       ELSE stack' = stack /\ status' = "error"
    /\ UNCHANGED <<deps, processed, disk, open, payload, exc, failed,
                   rendered, render_vars>>

\* line 216 returns
Return ==
    /\ status = "running" /\ stack = <<>>
    /\ status' = "done"
    /\ UNCHANGED <<deps, stack, processed, disk, open, payload, exc, failed,
                   rendered, render_vars>>

Next ==
    \/ Skip \/ Enter \/ Call \/ Overflow \/ LoopDone
    \/ GenParse \/ GenOpen \/ GenWrite \/ GenClose \/ AddProcessed
    \/ Propagate \/ Return

Spec == Init /\ [][Next]_vars

\* The run has a scheduler of one thread: a step that can be taken is taken.
FairSpec == Spec /\ WF_vars(Next)

\* ------------------------------------------------------------------------
\* Properties of the walker
\* ------------------------------------------------------------------------
Reachable == ReachFrom(deps, {Root})

\* the output of f is completely written and closed
Complete(f) ==
    /\ disk[f].exists
    /\ f \notin open
    /\ payload[f] \in Payloads \ {"malformed"}
    /\ \E r \in {file_body(FileProto(f, payload[f]))} :
          r.err = "none" /\ disk[f].text = r.out

AtCheckProcessed == Running /\ Top.pc = "check" /\ Top.desc \in processed

\* C1: no file is generated twice; when the run returns, every file
\* reachable from the root has been generated exactly once and no other file
\* at all; a call for a name already in processed returns at once, leaving
\* processed, the files and the generation counts as they are.
C1_ExactlyOnce ==
    /\ [](\A f \in Files : rendered[f] <= 1)
    /\ [](status = "done" =>
            \A f \in Files : rendered[f] = IF f \in Reachable THEN 1 ELSE 0)
    /\ [][AtCheckProcessed =>
            /\ stack' = Pop
            /\ UNCHANGED <<processed, disk, rendered, open, status>>]_vars

\* a diamond: the root imports two files which both import a fourth
C1_Witness ==
    /\ status = "done"
    /\ deps["a.proto"] = <<"x/b.proto", "x/y/c.proto">>
    /\ deps["x/b.proto"] = <<"google/d.proto">>
    /\ deps["x/y/c.proto"] = <<"google/d.proto">>
    /\ rendered["google/d.proto"] = 1

Generating(fr) == fr.pc \in {"parse", "open", "write", "close", "add"}

\* C2: an activation calls its direct dependencies in their declared order,
\* and when it starts to generate its own file (and from then on) the output
\* of each of its direct and transitive dependencies is complete and closed.
C2_ImportBeforeUse ==
    \A k \in 1..Len(stack) :
        LET fr == stack[k]
        IN  /\ fr.called = SubSeq(deps[fr.desc], 1, Len(fr.called))
            /\ Generating(fr) =>
                  /\ fr.called = deps[fr.desc]
                  /\ \A d \in TransDeps(deps, fr.desc) : Complete(d)

C2_Witness ==
    /\ Running /\ Top.pc = "parse" /\ Top.desc = Root
    /\ deps[Root] = <<"x/y/c.proto", "x/b.proto">>
    /\ deps["x/b.proto"] = <<"google/d.proto">>
    /\ Complete("google/d.proto")

\* C3: after a GROUP field has aborted the generation of a file, the file at
\* protobuf/<name> holds the complete rendering or does not exist.
C3_NoPartialFile ==
    exc = "NameError" => \A f \in failed : disk[f] = NoFile \/ Complete(f)

Aborting == status \in {"raising", "error"}

\* C4: once the generation of a file F has failed the run is aborting and
\* stays so; nothing more is generated or written, F is not in processed, no
\* file that depends on F has been generated or exists, and the exception
\* reaches the caller of reverse_descriptor.
C4_AbortOnFirstError ==
    /\ [](failed # {} =>
            /\ Aborting
            /\ Cardinality(failed) = 1
            /\ failed \cap processed = {}
            /\ \A g \in Files :
                  failed \cap TransDeps(deps, g) # {} =>
                      rendered[g] = 0 /\ disk[g] = NoFile)
    /\ [][failed # {} =>
            /\ UNCHANGED <<rendered, processed, disk, failed, exc, payload>>
            /\ status' \in {"raising", "error"}]_vars
    /\ (failed # {}) ~> (status = "error" /\ exc # "none" /\ stack = <<>>)

C4_Witness ==
    /\ status = "error" /\ exc = "DecodeError"
    /\ failed = {"x/b.proto"}
    /\ deps[Root] = <<"x/b.proto", "x/y/c.proto">>
    /\ deps["x/b.proto"] = <<"google/d.proto">>
    /\ Complete("google/d.proto")
    /\ rendered["x/y/c.proto"] = 0

\* C5: on an acyclic graph the run ends, never by exhausting the stack, and
\* when it returns every reachable file has been generated; on a graph with
\* a cycle reachable from the root it never returns: the recursion deepens
\* to the limit of the stack unless a fatal error stops it first, because
\* the name of an activation past the check is never in processed.
C5_Termination ==
    /\ Acyclic(deps, Root) ~> (status \in {"done", "error"})
    /\ [](Acyclic(deps, Root) => exc # "RecursionError")
    /\ [](status = "done" =>
            Acyclic(deps, Root) /\ \A f \in Reachable : rendered[f] = 1)
    /\ (~Acyclic(deps, Root)) ~> (exc = "RecursionError" \/ failed # {})
    /\ [](\A k \in 1..Len(stack) :
            stack[k].pc # "check" => stack[k].desc \notin processed)

\* a cycle of two files below the root, run into the limit of the stack
C5_Witness ==
    /\ deps["x/b.proto"] = <<"x/y/c.proto">>
    /\ deps["x/y/c.proto"] = <<"x/b.proto">>
    /\ deps[Root] = <<"x/b.proto">>
    /\ Len(stack) = MaxDepth
    /\ exc = "RecursionError"

\* C10: a name in processed has its output complete and closed, and all its
\* direct and transitive dependencies are in processed; when the run
\* returns, processed is the set of names reachable from the root; no name
\* ever leaves processed.
C10_VisitedSet ==
    /\ [](\A f \in processed :
            Complete(f) /\ TransDeps(deps, f) \subseteq processed)
    /\ [](status = "done" => processed = Reachable)
    /\ [][processed \subseteq processed']_vars

C10_Witness ==
    /\ status = "done"
    /\ processed = Files

\* ------------------------------------------------------------------------
\* The generators applied on their own, to descriptors drawn from bounded
\* sets
\* ------------------------------------------------------------------------
MaxFields == 2
MaxNested == 2

SeqsUpTo(S, n) == UNION {[1..k -> S] : k \in 0..n}

AllTypes == TYPE_DOUBLE..TYPE_SINT64

Fields ==
    {Field(n, num, t, tn, l, p) :
        n \in {"counts", "v"}, num \in {1, 15}, t \in AllTypes,
        tn \in {"", ".pkg.Stats.CountsEntry", "Inner", ".pkg.Color"},
        l \in {1, 2, LABEL_REPEATED}, p \in BOOLEAN}

MapTables ==
    {<<>>,
     [n \in {"CountsEntry"} |-> "map<string,int32>"],
     [n \in {"Inner", "Color"} |-> "map<int32,Inner>"]}

Levels == {"", "  "}

TagsEntry ==
    Message("TagsEntry", TRUE,
            <<Field("key", 1, TYPE_INT32, "", 1, FALSE),
              Field("value", 2, TYPE_MESSAGE, ".pkg.Stats.Inner", 1, FALSE)>>,
            <<>>, <<>>)

GroupEntry ==
    Message("GroupEntry", TRUE,
            <<Field("key", 1, TYPE_STRING, "", 1, FALSE),
              Field("value", 2, TYPE_GROUP, ".pkg.Stats.G", 1, FALSE)>>,
            <<>>, <<>>)

\* a nested message that names the map entries of its parent
Inner ==
    Message("Inner", FALSE,
            <<Field("c", 1, TYPE_MESSAGE, ".pkg.Stats.CountsEntry",
                    LABEL_REPEATED, FALSE),
              Field("t", 2, TYPE_MESSAGE, ".pkg.Stats.TagsEntry",
                    LABEL_REPEATED, FALSE)>>,
            <<>>, <<>>)

\* a nested message with a map entry of its own, named as its parent's
Shadow ==
    Message("Shadow", FALSE,
            <<Field("c", 1, TYPE_MESSAGE, ".pkg.Stats.Shadow.CountsEntry",
                    LABEL_REPEATED, FALSE),
              Field("t", 2, TYPE_MESSAGE, ".pkg.Stats.TagsEntry",
                    LABEL_REPEATED, FALSE)>>,
            <<Message("CountsEntry", TRUE,
                      <<Field("key", 1, TYPE_BOOL, "", 1, FALSE),
                        Field("value", 2, TYPE_BYTES, "", 1, FALSE)>>,
                      <<>>, <<>>)>>,
            <<Color>>)

NestedPool == {CountsEntry, TagsEntry, GroupEntry, Inner, Shadow}

FieldPool ==
    {Field("counts", 1, TYPE_MESSAGE, ".pkg.Stats.CountsEntry",
           LABEL_REPEATED, FALSE),
     Field("tags", 2, TYPE_MESSAGE, ".pkg.Stats.TagsEntry",
           LABEL_REPEATED, FALSE),
     Field("inner", 3, TYPE_MESSAGE, ".pkg.Stats.Inner", LABEL_REPEATED, FALSE),
     Field("id", 4, TYPE_INT32, "", 1, FALSE),
     Field("g", 5, TYPE_GROUP, ".pkg.Stats.G", 1, FALSE),
     Field("hue", 6, TYPE_ENUM, ".pkg.Color", LABEL_REPEATED, TRUE)}

Messages ==
    {Message("Stats", FALSE, fs, ns, es) :
        fs \in SeqsUpTo(FieldPool, MaxFields),
        ns \in SeqsUpTo(NestedPool, MaxNested),
        es \in {<<>>, <<Color>>}}

ImportNames ==
    {"a.proto", "x/b.proto", "x/y/c.proto", "google/d.proto", "a/b/x.proto",
     "c/y.proto", "a/y.proto", "a/b/c/z.proto", "googleapis/e.proto",
     "x/goog.proto", "a//b/./w.proto"}

RenderInit ==
    /\ deps = [f \in Files |-> <<>>]
    /\ stack = <<>>
    /\ processed = {}
    /\ disk = [f \in Files |-> NoFile]
    /\ open = {}
    /\ payload = [f \in Files |-> "unread"]
    /\ status = "idle"
    /\ exc = "none"
    /\ failed = {}
    /\ rendered = [f \in Files |-> 0]
    /\ RenderIdle

ApplyTypeStr ==
    /\ op = "idle"
    /\ \E field \in Fields :
        /\ op' = "extract_field_type_str"
        /\ arg' = <<field>>
        /\ res' = extract_field_type_str(field)
    /\ UNCHANGED walk_vars

ApplyField ==
    /\ op = "idle"
    /\ \E field \in Fields, map_entries \in MapTables, level \in Levels :
        /\ op' = "generate_field"
        /\ arg' = <<field, map_entries, level>>
        /\ res' = generate_field(field, map_entries, level)
    /\ UNCHANGED walk_vars

\* the call of line 199, at the default level
ApplyMessage ==
    /\ op = "idle"
    /\ \E msg \in Messages :
        /\ op' = "generate_message"
        /\ arg' = <<msg, "">>
        /\ res' = generate_message(msg, "")
    /\ UNCHANGED walk_vars

\* the call of line 190, for a file named importer
ApplyImport ==
    /\ op = "idle"
    /\ \E dep \in ImportNames, importer \in ImportNames :
        /\ op' = "generate_import"
        /\ arg' = <<dep, importer>>
        /\ res' = generate_import(dep, Parent(Path("protobuf/" \o importer)))
    /\ UNCHANGED walk_vars

Reset ==
    /\ op # "idle"
    /\ op' = "idle" /\ arg' = <<>> /\ res' = Wrote("")
    /\ UNCHANGED walk_vars

RenderNext ==
    \/ ApplyTypeStr \/ ApplyField \/ ApplyMessage \/ ApplyImport \/ Reset

RenderSpec == RenderInit /\ [][RenderNext]_vars

\* ------------------------------------------------------------------------
\* Properties of the generators
\* ------------------------------------------------------------------------
\* the lines of a text (the piece after the last line feed included)
Lines(text) == Split(text, "\n")

RECURSIVE LStrip(_)
LStrip(s) == IF Len(s) > 0 /\ CharAt(s, 1) = " " THEN LStrip(Tail(s)) ELSE s

EndsWith(s, p) ==
    Len(s) >= Len(p) /\ SubSeq(s, Len(s) - Len(p) + 1, Len(s)) = p

Occurs(s, c) == \E i \in 1..Len(s) : CharAt(s, i) = c

RECURSIVE Sum(_)
Sum(ns) == IF ns = <<>> THEN 0 ELSE Head(ns) + Sum(Tail(ns))

EnumLineCount(e) == 2 + (IF e.allow_alias THEN 1 ELSE 0) + Len(e.value)

RECURSIVE LineCount(_)
\* the number of lines a message declaration takes, map entries not declared
LineCount(msg) ==
    3 + Sum([i \in 1..Len(msg.nested_type) |->
                IF msg.nested_type[i].map_entry THEN 0
                ELSE LineCount(msg.nested_type[i])])
      + Sum([i \in 1..Len(msg.enum_type) |-> EnumLineCount(msg.enum_type[i])])
      + Len(msg.field)

OwnEntries(msg) == {m \in Range(msg.nested_type) : m.map_entry}

RECURSIVE EntryNames(_)
\* the names of the map entries of msg and of the messages nested in it
EntryNames(msg) ==
    {m.name : m \in OwnEntries(msg)}
    \cup UNION {EntryNames(m) : m \in Range(msg.nested_type) \ OwnEntries(msg)}

IsTypeRef(f) == f.type = TYPE_MESSAGE \/ f.type = TYPE_ENUM

RECURSIVE CollapseOK(_, _, _, _)
\* In the declaration of msg that starts at line `start`: a field that names
\* a map entry of msg itself is the map shorthand without `repeated`, a field
\* that names any other type is not a shorthand; the same in every nested
\* declaration.
CollapseOK(msg, level, lines, start) ==
    LET close == start + LineCount(msg) - 1
        line(j) == lines[close - Len(msg.field) + j - 1]
        before(i) == Sum([k \in 1..(i - 1) |->
                            IF msg.nested_type[k].map_entry THEN 0
                            ELSE LineCount(msg.nested_type[k])])
    IN  /\ lines[start] = level \o "message " \o msg.name
        /\ lines[close] = level \o "}"
        /\ \A j \in 1..Len(msg.field) :
              LET f == msg.field[j]
                  seg == Last(Split(f.type_name, "."))
              IN  IsTypeRef(f) =>
                    IF \E e \in OwnEntries(msg) : e.name = seg
                    THEN \E e \in OwnEntries(msg) :
                           /\ e.name = seg
                           /\ line(j) = level \o "  map<"
                                \o extract_field_type_str(e.field[1]).val \o ","
                                \o extract_field_type_str(e.field[2]).val \o "> "
                                \o f.name \o " = " \o ToString(f.number) \o ";"
                    ELSE ~StartsWith(LStrip(line(j)), "map<")
        /\ \A i \in 1..Len(msg.nested_type) :
              ~msg.nested_type[i].map_entry =>
                 CollapseOK(msg.nested_type[i], level \o "  ", lines,
                            start + 2 + before(i))

\* C6: a message that renders without error declares none of its map
\* entries, renders every field naming one of its own map entries as
\* `map<K,V> name = number;` without `repeated`, and uses no other message's
\* map entries (parent, nested or sibling) for its fields.
C6_MapCollapse ==
    (op = "generate_message" /\ res.err = "none") =>
        LET msg == arg[1]
            lines == Lines(res.out)
        IN  /\ Len(lines) = LineCount(msg) + 1
            /\ CollapseOK(msg, arg[2], lines, 1)
            /\ \A k \in 1..Len(lines) :
                  \A n \in EntryNames(msg) :
                     LStrip(lines[k]) # "message " \o n

C6_Witness ==
    /\ op = "generate_message"
    /\ arg = <<Message("Stats", FALSE,
                       <<Field("counts", 1, TYPE_MESSAGE,
                               ".pkg.Stats.CountsEntry", LABEL_REPEATED, FALSE)>>,
                       <<CountsEntry>>, <<>>), "">>
    /\ res = Wrote("message Stats\n{\n  map<string,int32> counts = 1;\n}\n")

\* the keyword of each scalar kind of the protobuf language
ScalarKeyword ==
    (1 :> "double") @@ (2 :> "float") @@ (3 :> "int64") @@ (4 :> "uint64")
    @@ (5 :> "int32") @@ (6 :> "fixed64") @@ (7 :> "fixed32") @@ (8 :> "bool")
    @@ (9 :> "string") @@ (12 :> "bytes") @@ (13 :> "uint32")
    @@ (15 :> "sfixed32") @@ (16 :> "sfixed64") @@ (17 :> "sint32")
    @@ (18 :> "sint64")

\* C7: every scalar type code resolves to the keyword of its kind, 12 to
\* `bytes`.
C7_ScalarTable ==
    (op = "extract_field_type_str" /\ arg[1].type \in DOMAIN ScalarKeyword) =>
        res = [val |-> ScalarKeyword[arg[1].type], err |-> "none"]

RECURSIVE Ups(_)
Ups(n) == IF n = 0 THEN "" ELSE "../" \o Ups(n - 1)

RECURSIVE Resolve(_, _)
\* the path that `parts` denotes from the directory `dir`
Resolve(dir, parts) ==
    IF parts = <<>> THEN dir
    ELSE Resolve(IF Head(parts) = ".." THEN Parent(dir)
                 ELSE Append(dir, Head(parts)), Tail(parts))

\* the length of the nearest ancestor (or self) of dir that contains target
NearestAncestor(dir, target) ==
    CHOOSE k \in 0..Len(dir) :
        /\ IsRelativeTo(target, SubSeq(dir, 1, k))
        /\ \A j \in (k + 1)..Len(dir) : ~IsRelativeTo(target, SubSeq(dir, 1, j))

\* C8: a dependency outside the well-known prefix gives exactly the line
\* import "<up><rel>"; with one ../ per level from the importer's directory
\* up to the nearest ancestor containing protobuf/<dep> and <rel> the path
\* below it, and that path, resolved from the importer's directory, is
\* protobuf/<dep>; a dependency with the well-known prefix gives no line.
C8_RelativeImport ==
    op = "generate_import" =>
        LET dep == arg[1]
            dir == Parent(Path("protobuf/" \o arg[2]))
            target == Path("protobuf/" \o dep)
            k == NearestAncestor(dir, target)
        IN  IF StartsWith(dep, "google") THEN res = Wrote("")
            ELSE /\ res = Wrote("import \"" \o Ups(Len(dir) - k)
                                \o JoinParts(SubSeq(target, k + 1, Len(target)))
                                \o "\";\n")
                 /\ Resolve(dir, Split(SubSeq(res.out, 9, Len(res.out) - 3), "/"))
                      = target

C8_Witness ==
    /\ op = "generate_import"
    /\ arg = <<"c/y.proto", "a/b/x.proto">>
    /\ res = Wrote("import \"../../c/y.proto\";\n")

\* C9: a field with the packed option renders, without error, as
\* `<indent><repeated? ><type> <name> = <number>[packed = true];`, and a
\* field without it renders with no bracket section.
C9_FieldOptions ==
    (op = "generate_field" /\ arg[1].type # TYPE_GROUP) =>
        LET f == arg[1]
        IN  /\ res.err = "none"
            /\ StartsWith(res.out, arg[3])
            /\ IF f.packed
               THEN EndsWith(res.out, " " \o f.name \o " = " \o ToString(f.number)
                                      \o "[packed = true];\n")
               ELSE /\ EndsWith(res.out, " " \o f.name \o " = "
                                         \o ToString(f.number) \o ";\n")
                    /\ ~Occurs(res.out, "[")
=============================================================================
